---------------------------- MODULE Spec2Model ----------------------------
(***************************************************************************)
(* DistilledJudge: the preference-pair reformatter                         *)
(* (src/distill/distill_judge_with_rm.py) and the RewardBench runner       *)
(* (src/eval/rewardbench/__main__.py).                                     *)
(*                                                                         *)
(* Text is a sequence of one-character strings.  A decoded JSON value is a *)
(* record [tag, val]; tag "absent" stands for a key the object lacks.      *)
(***************************************************************************)
EXTENDS Naturals, Integers, Sequences, FiniteSets

VARIABLES
    \* process_file
    infile,        \* the lines of the input file, as json.loads sees them
    line_number,   \* enumerate(infile, 1): lines consumed so far
    toggle,        \* the alternation flag
    output_data,   \* the in-memory list of output entries
    log,           \* what print() has reported: skipped line numbers
    outfile,       \* [opened, lines]: the output file during this run
    pc,            \* position of process_file
    \* remove_templates applied once and twice
    s_text, s_once, s_twice, s_pc,
    \* main() of the benchmark runner
    args,          \* [batch_size, save_all]
    config,        \* [custom_dialogue] of the reward-model configuration
    shape,         \* what reward_pipe returns: "dict" or "raw"
    dataset,       \* the preference pairs, each with the score of either side
    loaded,        \* which of tokenizer, dataset, model have been loaded
    step,          \* batches done
    pipe_calls,    \* invocations of reward_pipe
    results, scores_chosen, scores_rejected,
    acc_file,      \* lines of <model>.json
    all_file,      \* lines of <model>_all.jsonl
    b_pc           \* position of main

fileVars  == <<infile, line_number, toggle, output_data, log, outfile, pc>>
stripVars == <<s_text, s_once, s_twice, s_pc>>
benchVars == <<args, config, shape, dataset, loaded, step, pipe_calls,
               results, scores_chosen, scores_rejected, acc_file, all_file, b_pc>>
vars == <<fileVars, stripVars, benchVars>>

---------------------------------------------------------------------------
(* Bounds *)

MaxLines == 3

MaxPieces == 5

MaxPairs == 3

MaxBatch == 2

---------------------------------------------------------------------------
(* Text helpers *)

RECURSIVE Flatten(_)
Flatten(ss) == IF ss = <<>> THEN <<>> ELSE Head(ss) \o Flatten(Tail(ss))

\* the characters str.strip() removes, as far as the inputs hold them
Whitespace == {" ", "\n"}

RECURSIVE LStrip(_)
LStrip(s) ==
    IF s # <<>> /\ Head(s) \in Whitespace THEN LStrip(Tail(s)) ELSE s

RECURSIVE RStrip(_)
RStrip(s) ==
    IF s # <<>> /\ s[Len(s)] \in Whitespace
    THEN RStrip(SubSeq(s, 1, Len(s) - 1)) ELSE s

Strip(s) == RStrip(LStrip(s))

\* pat matches s at position i
MatchesAt(s, i, pat) ==
    /\ i + Len(pat) - 1 <= Len(s)
    /\ \A k \in 1..Len(pat) : s[i + k - 1] = pat[k]

\* the first position >= i where pat matches s, or 0
RECURSIVE FindFrom(_, _, _)
FindFrom(s, i, pat) ==
    IF i + Len(pat) - 1 > Len(s) THEN 0
    ELSE IF MatchesAt(s, i, pat) THEN i
    ELSE FindFrom(s, i + 1, pat)

---------------------------------------------------------------------------
(* remove_templates: re.sub(r'<\|.*?\|>', '', text).strip() *)

MarkerOpen == <<"<", "|">>

MarkerClose == <<"|", ">">>

\* .*?\|> from position j: the first "|>" at or after j that no newline
\* precedes ('.' does not match a newline without DOTALL), or 0
RECURSIVE LazyClose(_, _)
LazyClose(s, j) ==
    IF j + 1 > Len(s) THEN 0
    ELSE IF MatchesAt(s, j, MarkerClose) THEN j
    ELSE IF s[j] = "\n" THEN 0
    ELSE LazyClose(s, j + 1)

\* re.sub scanning from position i: a match is dropped and the scan goes on
\* after it; a position without a match keeps its character
RECURSIVE SubMarkers(_, _)
SubMarkers(s, i) ==
    IF i > Len(s) THEN <<>>
    ELSE IF MatchesAt(s, i, MarkerOpen) /\ LazyClose(s, i + 2) # 0
         THEN SubMarkers(s, LazyClose(s, i + 2) + 2)
         ELSE <<s[i]>> \o SubMarkers(s, i + 1)

remove_templates(text) == Strip(SubMarkers(text, 1))

---------------------------------------------------------------------------
(* The instruction span: re.search(USER_OPEN (.*?) EOT, prompt, re.DOTALL) *)

StartHeader ==
    <<"<","|","s","t","a","r","t","_","h","e","a","d","e","r","_","i","d","|",">">>

EndHeader ==
    <<"<","|","e","n","d","_","h","e","a","d","e","r","_","i","d","|",">">>

UserOpen == StartHeader \o <<"u","s","e","r">> \o EndHeader \o <<"\n","\n">>

EotId == <<"<","|","e","o","t","_","i","d","|",">">>

\* [found, group]: the leftmost opening marker that an end marker follows,
\* and the text up to the first such end marker (with DOTALL the text may
\* hold newlines).  An opening marker no end marker follows has none
\* following any later opening marker either.
instruction_match(prompt) ==
    LET i == FindFrom(prompt, 1, UserOpen)
        j == IF i = 0 THEN 0 ELSE FindFrom(prompt, i + Len(UserOpen), EotId)
    IN  IF i = 0 \/ j = 0
        THEN [found |-> FALSE, group |-> <<>>]
        ELSE [found |-> TRUE, group |-> SubSeq(prompt, i + Len(UserOpen), j - 1)]

---------------------------------------------------------------------------
(* Decoded JSON values *)

\* the values of "prompt", "chosen" and "rejected": val is a text
Absent == [tag |-> "absent", val |-> <<>>]

Str(s) == [tag |-> "str", val |-> s]

Null == [tag |-> "null", val |-> <<>>]

\* the values of "results": val is a number
NoResults == [tag |-> "absent", val |-> 0]

NullResults == [tag |-> "null", val |-> 0]

IntVal(n) == [tag |-> "int", val |-> n]

BoolVal(n) == [tag |-> "bool", val |-> n]    \* false is 0, true is 1

StrNum(n) == [tag |-> "str", val |-> n]      \* the string "0", "1", ...

\* dict.get(key, default)
DictGet(field, default) == IF field.tag = "absent" THEN default ELSE field

\* Python's value == 0: an int or a bool (a subclass of int) of value 0;
\* a string or None never equals 0
PyEqualsZero(v) == v.tag \in {"int", "bool"} /\ v.val = 0

---------------------------------------------------------------------------
(* Input lines *)

TextA == <<"<","|","x","|",">","A","<","|","/","x","|",">">>

TextB == <<" ","B","\n">>

TextC == <<"C","<","|","e","|",">">>

PromptPlain == <<"h","i">>

PromptOne == <<"s">> \o UserOpen \o <<"W","\n","h">> \o EotId

PromptTwo == UserOpen \o <<" ","Q","1">> \o EotId \o UserOpen \o <<"Q","2">> \o EotId

PromptOpenOnly == UserOpen \o <<"Q">>

Obj(prompt, chosen, rejected, res) ==
    [kind |-> "object", prompt |-> prompt, chosen |-> chosen,
     rejected |-> rejected, results |-> res]

Other(kind) ==
    [kind |-> kind, prompt |-> Absent, chosen |-> Absent,
     rejected |-> Absent, results |-> NoResults]

\* "blank": empty after strip(); "malformed": json.loads raises
\* JSONDecodeError; "nonobject": json.loads returns a list, number, string
\* or None; "object": json.loads returns a dict
Lines ==
    { Other("blank"), Other("malformed"), Other("nonobject") }
    \cup { Obj(p, Str(TextA), Str(TextB), IntVal(1)) :
             p \in {Absent, Str(PromptPlain), Str(PromptOne), Str(PromptTwo),
                    Str(PromptOpenOnly)} }
    \cup { Obj(Str(PromptOne), Str(TextA), Str(TextB), r) :
             r \in {NoResults, IntVal(0), IntVal(2), BoolVal(0), StrNum(0),
                    NullResults} }
    \cup { Obj(Str(PromptTwo), Str(TextC), Absent, IntVal(0)),
           Obj(Str(PromptOne), Null, Str(TextB), IntVal(1)) }

Files == UNION { [1..n -> Lines] : n \in 0..MaxLines }

---------------------------------------------------------------------------
(* process_file *)

SystemText == "You are a helpful assistant in evaluating the quality of the outputs for a given instruction. Your goal is to select the best output for the given instruction."

ExtractInstructionWholePrompt(prompt) ==
    LET m == instruction_match(prompt)
    IN  IF m.found THEN remove_templates(m.group) ELSE remove_templates(prompt)

\* lines 25-33
ExtractInstruction(prompt) ==
    LET m == instruction_match(prompt)
    IN  IF m.found THEN remove_templates(m.group) ELSE <<>>

CorrectPairNoSwap(data) ==
    [chosen_text   |-> remove_templates(DictGet(data.chosen, Str(<<>>)).val),
     rejected_text |-> remove_templates(DictGet(data.rejected, Str(<<>>)).val)]

\* lines 36-41: [chosen_text, rejected_text] after the results swap
CorrectPair(data) ==
    LET chosen_text   == remove_templates(DictGet(data.chosen, Str(<<>>)).val)
        rejected_text == remove_templates(DictGet(data.rejected, Str(<<>>)).val)
    IN  IF PyEqualsZero(DictGet(data.results, IntVal(1)))
        THEN [chosen_text |-> rejected_text, rejected_text |-> chosen_text]
        ELSE [chosen_text |-> chosen_text, rejected_text |-> rejected_text]

ArrangeLabelOnly(tg, chosen_text, rejected_text) ==
    [output_label |-> IF tg THEN "Output (a)" ELSE "Output (b)",
     a_text |-> chosen_text, b_text |-> rejected_text]

\* lines 44-51
Arrange(tg, chosen_text, rejected_text) ==
    IF tg
    THEN [output_label |-> "Output (a)", a_text |-> chosen_text,
          b_text |-> rejected_text]
    ELSE [output_label |-> "Output (b)", a_text |-> rejected_text,
          b_text |-> chosen_text]

\* lines 57-83.  The f-string of the "instruction" field is its three
\* interpolated slots: {instruction}, {a_text} after "# Output (a):" and
\* {b_text} after "# Output (b):"; the text around them is fixed.
OutputEntry(data, tg) ==
    LET pair == CorrectPair(data)
        pos  == Arrange(tg, pair.chosen_text, pair.rejected_text)
    IN  [instruction |-> ExtractInstruction(DictGet(data.prompt, Str(<<>>)).val),
         a_text |-> pos.a_text, b_text |-> pos.b_text,
         input |-> "", system |-> SystemText, output |-> pos.output_label]

NextToggleStuck(tg) == tg

\* line 87
NextToggle(tg) == ~tg

\* re.search and re.sub raise TypeError on anything but a string
IsText(field, default) == DictGet(field, default).tag = "str"

Decodes(data) ==
    /\ data.kind = "object"
    /\ IsText(data.prompt, Str(<<>>))
    /\ IsText(data.chosen, Str(<<>>))
    /\ IsText(data.rejected, Str(<<>>))

CurLine == infile[line_number + 1]

Reading == pc = "reading" /\ line_number < Len(infile)

\* lines 14-16
SkipBlank ==
    /\ Reading
    /\ CurLine.kind = "blank"
    /\ line_number' = line_number + 1
    /\ UNCHANGED <<infile, toggle, output_data, log, outfile, pc>>

SkipInvalidJSONBreak ==
    /\ Reading
    /\ CurLine.kind = "malformed"
    /\ line_number' = Len(infile)
    /\ log' = Append(log, line_number + 1)
    /\ UNCHANGED <<infile, toggle, output_data, outfile, pc>>

\* lines 17-21
SkipInvalidJSON ==
    /\ Reading
    /\ CurLine.kind = "malformed"
    /\ line_number' = line_number + 1
    /\ log' = Append(log, line_number + 1)
    /\ UNCHANGED <<infile, toggle, output_data, outfile, pc>>

RaiseSkipped ==
    /\ Reading
    /\ CurLine.kind \in {"nonobject", "object"}
    /\ ~Decodes(CurLine)
    /\ line_number' = line_number + 1
    /\ log' = Append(log, line_number + 1)
    /\ UNCHANGED <<infile, toggle, output_data, outfile, pc>>

\* line 24: data.get on a list, number, string or None raises
\* AttributeError; lines 25-37: re on a non-string raises TypeError.
\* Neither is caught.
RaiseUncaught ==
    /\ Reading
    /\ CurLine.kind \in {"nonobject", "object"}
    /\ ~Decodes(CurLine)
    /\ line_number' = line_number + 1
    /\ pc' = "crashed"
    /\ UNCHANGED <<infile, toggle, output_data, log, outfile>>

\* lines 23-87
EmitRecord ==
    /\ Reading
    /\ Decodes(CurLine)
    /\ line_number' = line_number + 1
    /\ output_data' = Append(output_data, OutputEntry(CurLine, toggle))
    /\ toggle' = NextToggle(toggle)
    /\ UNCHANGED <<infile, log, outfile, pc>>

\* line 90: open(output_filename, 'w') once the input is exhausted
OpenOutput ==
    /\ pc = "reading"
    /\ line_number = Len(infile)
    /\ outfile' = [opened |-> TRUE, lines |-> <<>>]
    /\ pc' = "writing"
    /\ UNCHANGED <<infile, line_number, toggle, output_data, log>>

\* lines 91-93
WriteEntry ==
    /\ pc = "writing"
    /\ Len(outfile.lines) < Len(output_data)
    /\ outfile' = [outfile EXCEPT
                     !.lines = Append(@, output_data[Len(outfile.lines) + 1])]
    /\ UNCHANGED <<infile, line_number, toggle, output_data, log, pc>>

CloseOutput ==
    /\ pc = "writing"
    /\ Len(outfile.lines) = Len(output_data)
    /\ pc' = "done"
    /\ UNCHANGED <<infile, line_number, toggle, output_data, log, outfile>>

InitFile ==
    /\ infile \in Files
    /\ line_number = 0
    /\ toggle = TRUE
    /\ output_data = <<>>
    /\ log = <<>>
    /\ outfile = [opened |-> FALSE, lines |-> <<>>]
    /\ pc = "reading"

IdleFile ==
    /\ infile = <<>>
    /\ line_number = 0
    /\ toggle = TRUE
    /\ output_data = <<>>
    /\ log = <<>>
    /\ outfile = [opened |-> FALSE, lines |-> <<>>]
    /\ pc = "idle"

---------------------------------------------------------------------------
(* remove_templates applied to its own result *)

Pieces ==
    { <<"<","|">>, <<"|",">">>, <<"<">>, <<"|">>, <<">">>, <<" ">>, <<"x">>,
      <<"\n">> }

Texts == { Flatten(ps) : ps \in UNION { [1..n -> Pieces] : n \in 0..MaxPieces } }

ApplyOnce ==
    /\ s_pc = "start"
    /\ s_once' = remove_templates(s_text)
    /\ s_pc' = "once"
    /\ UNCHANGED <<s_text, s_twice>>

ApplyTwice ==
    /\ s_pc = "once"
    /\ s_twice' = remove_templates(s_once)
    /\ s_pc' = "twice"
    /\ UNCHANGED <<s_text, s_once>>

InitStrip ==
    /\ s_text \in Texts
    /\ s_once = <<>>
    /\ s_twice = <<>>
    /\ s_pc = "start"

IdleStrip ==
    /\ s_text = <<>>
    /\ s_once = <<>>
    /\ s_twice = <<>>
    /\ s_pc = "idle"

---------------------------------------------------------------------------
(* main() of the benchmark runner.  A text stands for the score the reward  *)
(* model gives it (scores in tenths); the run is one without --debug.       *)

Pairs ==
    { [text_chosen |-> 9, text_rejected |-> 2],
      [text_chosen |-> 1, text_rejected |-> 8],
      [text_chosen |-> 5, text_rejected |-> 5] }

Datasets == UNION { [1..n -> Pairs] : n \in 0..MaxPairs }

Min(a, b) == IF a < b THEN a ELSE b

RECURSIVE Sum(_)
Sum(xs) == IF xs = <<>> THEN 0 ELSE Head(xs) + Sum(Tail(xs))

\* lines 171-176: the step-th batch (from 0) of the DataLoader, drop_last=False
NumBatches == (Len(dataset) + args.batch_size - 1) \div args.batch_size

Batch(k) ==
    SubSeq(dataset, k * args.batch_size + 1,
           Min((k + 1) * args.batch_size, Len(dataset)))

\* reward_pipe(texts): one {"label", "score"} mapping per text, or a tensor
\* of scores
RewardPipe(texts) ==
    IF shape = "dict"
    THEN [dicts |-> [i \in 1..Len(texts) |-> [label |-> "LABEL_0", score |-> texts[i]]]]
    ELSE [tensor |-> texts]

\* lines 197-203
ScoreBatch(rewards) ==
    IF shape = "dict"
    THEN [i \in 1..Len(rewards.dicts) |-> rewards.dicts[i].score]
    ELSE rewards.tensor

IndicatorsGE(score_chosen_batch, score_rejected_batch) ==
    [i \in 1..Min(Len(score_chosen_batch), Len(score_rejected_batch)) |->
        IF score_chosen_batch[i] >= score_rejected_batch[i] THEN 1 ELSE 0]

\* lines 206-209: one indicator per zipped pair of scores
Indicators(score_chosen_batch, score_rejected_batch) ==
    [i \in 1..Min(Len(score_chosen_batch), Len(score_rejected_batch)) |->
        IF score_chosen_batch[i] > score_rejected_batch[i] THEN 1 ELSE 0]

\* lines 254-256
AllLines ==
    [i \in 1..Min(Len(scores_chosen), Len(scores_rejected)) |->
        [chosen |-> scores_chosen, rejected |-> scores_rejected]]

CheckCustomDialogueIgnored ==
    /\ b_pc = "config"
    /\ b_pc' = "load_tokenizer"
    /\ UNCHANGED <<args, config, shape, dataset, loaded, step, pipe_calls,
                   results, scores_chosen, scores_rejected, acc_file, all_file>>

\* lines 108-113
CheckCustomDialogue ==
    /\ b_pc = "config"
    /\ b_pc' = IF config.custom_dialogue THEN "not_implemented"
               ELSE "load_tokenizer"
    /\ UNCHANGED <<args, config, shape, dataset, loaded, step, pipe_calls,
                   results, scores_chosen, scores_rejected, acc_file, all_file>>

\* lines 121-122
LoadTokenizer ==
    /\ b_pc = "load_tokenizer"
    /\ loaded' = loaded \cup {"tokenizer"}
    /\ b_pc' = "load_dataset"
    /\ UNCHANGED <<args, config, shape, dataset, step, pipe_calls,
                   results, scores_chosen, scores_rejected, acc_file, all_file>>

\* lines 123-125
LoadDataset ==
    /\ b_pc = "load_dataset"
    /\ loaded' = loaded \cup {"dataset"}
    /\ b_pc' = "load_model"
    /\ UNCHANGED <<args, config, shape, dataset, step, pipe_calls,
                   results, scores_chosen, scores_rejected, acc_file, all_file>>

\* lines 152-179
LoadModel ==
    /\ b_pc = "load_model"
    /\ loaded' = loaded \cup {"model"}
    /\ b_pc' = "inference"
    /\ UNCHANGED <<args, config, shape, dataset, step, pipe_calls,
                   results, scores_chosen, scores_rejected, acc_file, all_file>>

\* lines 188-211: one batch
RunBatch ==
    /\ b_pc = "inference"
    /\ step < NumBatches
    /\ LET batch == Batch(step)
           rewards_chosen ==
               RewardPipe([i \in 1..Len(batch) |-> batch[i].text_chosen])
           rewards_rejected ==
               RewardPipe([i \in 1..Len(batch) |-> batch[i].text_rejected])
           score_chosen_batch == ScoreBatch(rewards_chosen)
           score_rejected_batch == ScoreBatch(rewards_rejected)
       IN  /\ results' = results \o Indicators(score_chosen_batch, score_rejected_batch)
           /\ scores_chosen' = scores_chosen \o score_chosen_batch
           /\ scores_rejected' = scores_rejected \o score_rejected_batch
    /\ pipe_calls' = pipe_calls + 2
    /\ step' = step + 1
    /\ UNCHANGED <<args, config, shape, dataset, loaded, acc_file, all_file, b_pc>>

\* lines 217-242: sum(results) / len(results) is kept as the fraction
\* [num, den]; an empty results list raises ZeroDivisionError
CompileScores ==
    /\ b_pc = "inference"
    /\ step = NumBatches
    /\ IF Len(results) = 0
       THEN /\ b_pc' = "zero_division"
            /\ UNCHANGED acc_file
       ELSE /\ acc_file' = <<[accuracy |-> [num |-> Sum(results), den |-> Len(results)],
                              num_prompts |-> Len(results)]>>
            /\ b_pc' = IF args.save_all THEN "save_all" ELSE "done"
    /\ UNCHANGED <<args, config, shape, dataset, loaded, step, pipe_calls,
                   results, scores_chosen, scores_rejected, all_file>>

\* lines 245-256
SaveAll ==
    /\ b_pc = "save_all"
    /\ all_file' = AllLines
    /\ b_pc' = "done"
    /\ UNCHANGED <<args, config, shape, dataset, loaded, step, pipe_calls,
                   results, scores_chosen, scores_rejected, acc_file>>

InitBench ==
    /\ args \in [batch_size : 1..MaxBatch, save_all : BOOLEAN]
    /\ config \in [custom_dialogue : BOOLEAN]
    /\ shape \in {"dict", "raw"}
    /\ dataset \in Datasets
    /\ loaded = {}
    /\ step = 0
    /\ pipe_calls = 0
    /\ results = <<>>
    /\ scores_chosen = <<>>
    /\ scores_rejected = <<>>
    /\ acc_file = <<>>
    /\ all_file = <<>>
    /\ b_pc = "config"

IdleBench ==
    /\ args = [batch_size |-> 1, save_all |-> FALSE]
    /\ config = [custom_dialogue |-> FALSE]
    /\ shape = "dict"
    /\ dataset = <<>>
    /\ loaded = {}
    /\ step = 0
    /\ pipe_calls = 0
    /\ results = <<>>
    /\ scores_chosen = <<>>
    /\ scores_rejected = <<>>
    /\ acc_file = <<>>
    /\ all_file = <<>>
    /\ b_pc = "idle"

---------------------------------------------------------------------------
(* Specifications *)

Init == InitFile /\ IdleStrip /\ IdleBench

Next ==
    \/ SkipBlank /\ UNCHANGED <<stripVars, benchVars>>
    \/ SkipInvalidJSON /\ UNCHANGED <<stripVars, benchVars>>
    \/ RaiseUncaught /\ UNCHANGED <<stripVars, benchVars>>
    \/ EmitRecord /\ UNCHANGED <<stripVars, benchVars>>
    \/ OpenOutput /\ UNCHANGED <<stripVars, benchVars>>
    \/ WriteEntry /\ UNCHANGED <<stripVars, benchVars>>
    \/ CloseOutput /\ UNCHANGED <<stripVars, benchVars>>

Spec == Init /\ [][Next]_vars

InitStripSpec == IdleFile /\ InitStrip /\ IdleBench

NextStrip ==
    \/ ApplyOnce /\ UNCHANGED <<fileVars, benchVars>>
    \/ ApplyTwice /\ UNCHANGED <<fileVars, benchVars>>

SpecStrip == InitStripSpec /\ [][NextStrip]_vars

InitBenchSpec == IdleFile /\ IdleStrip /\ InitBench

NextBench ==
    \/ CheckCustomDialogue /\ UNCHANGED <<fileVars, stripVars>>
    \/ LoadTokenizer /\ UNCHANGED <<fileVars, stripVars>>
    \/ LoadDataset /\ UNCHANGED <<fileVars, stripVars>>
    \/ LoadModel /\ UNCHANGED <<fileVars, stripVars>>
    \/ RunBatch /\ UNCHANGED <<fileVars, stripVars>>
    \/ CompileScores /\ UNCHANGED <<fileVars, stripVars>>
    \/ SaveAll /\ UNCHANGED <<fileVars, stripVars>>

SpecBench == InitBenchSpec /\ [][NextBench]_vars

---------------------------------------------------------------------------
(* Properties of process_file *)

\* a line that is one preference record: a JSON object whose prompt, chosen
\* and rejected are strings or missing
IsRecord(line) ==
    /\ line.kind = "object"
    /\ \A f \in {line.prompt, line.chosen, line.rejected} :
          f.tag \in {"absent", "str"}

\* the numbers of the record lines among the first n lines, ascending
RECURSIVE RecordLines(_)
RecordLines(n) ==
    IF n = 0 THEN <<>>
    ELSE IF IsRecord(infile[n]) THEN Append(RecordLines(n - 1), n)
    ELSE RecordLines(n - 1)

\* the numbers of the lines among the first n that fail JSON decoding
RECURSIVE MalformedLines(_)
MalformedLines(n) ==
    IF n = 0 THEN <<>>
    ELSE IF infile[n].kind = "malformed" THEN Append(MalformedLines(n - 1), n)
    ELSE MalformedLines(n - 1)

\* the input record the k-th emitted entry was made from
Src(k) == infile[RecordLines(line_number)[k]]

\* the stripped form of each chosen and rejected text of the input lines
StrippedText ==
    [t \in {DictGet(f, Str(<<>>)).val :
               f \in {l.chosen : l \in Lines} \cup {l.rejected : l \in Lines}} |->
        remove_templates(t)]

StrippedChosen(data) == StrippedText[DictGet(data.chosen, Str(<<>>)).val]

StrippedRejected(data) == StrippedText[DictGet(data.rejected, Str(<<>>)).val]

\* the end markers of a prompt at or after position i
SpanEnds(p, i) == {j \in i..Len(p) : MatchesAt(p, j, EotId)}

\* the spans a prompt holds: an opening marker and an end marker after it
SpanStarts(p) ==
    {i \in 1..Len(p) :
        MatchesAt(p, i, UserOpen) /\ SpanEnds(p, i + Len(UserOpen)) # {}}

Least(S) == CHOOSE x \in S : \A y \in S : x <= y

\* the text from position i to the nearest end marker
SpanText(p, i) == SubSeq(p, i, Least(SpanEnds(p, i)) - 1)

\* the text of the first span: from the leftmost opening marker to the
\* nearest end marker
FirstSpan(p) == SpanText(p, Least(SpanStarts(p)) + Len(UserOpen))

\* the instruction each prompt of the input lines calls for: empty without
\* a span, else the stripped text of the first span
ExpectedInstruction ==
    [p \in {DictGet(l.prompt, Str(<<>>)).val : l \in Lines} |->
        IF SpanStarts(p) = {} THEN <<>> ELSE remove_templates(FirstSpan(p))]

\* results == 0 as the program compares: 0 and false
ResultsEqualZero(data) ==
    data.results.tag \in {"int", "bool"} /\ data.results.val = 0

\* results is the number 0 itself
ResultsIsZero(data) == data.results.tag = "int" /\ data.results.val = 0

LabelOf(k) == IF k % 2 = 1 THEN "Output (a)" ELSE "Output (b)"

\* the text in the slot a label names, and the text in the other slot
SlotNamed(e) == IF e.output = "Output (a)" THEN e.a_text ELSE e.b_text

SlotOther(e) == IF e.output = "Output (a)" THEN e.b_text ELSE e.a_text

\* the file holds a prefix of the entries, and all of them once closed
Written ==
    /\ Len(outfile.lines) <= Len(output_data)
    /\ \A k \in 1..Len(outfile.lines) : outfile.lines[k] = output_data[k]
    /\ pc = "done" => Len(outfile.lines) = Len(output_data)

\* C1: the k-th emitted record is labelled "Output (a)" iff k is odd,
\* whatever the record holds; a line that emits no record leaves the toggle
\* as it was, so the toggle is true exactly after an even number of records.
C1_Alternation ==
    /\ \A k \in 1..Len(output_data) : output_data[k].output = LabelOf(k)
    /\ \A k \in 1..Len(outfile.lines) : outfile.lines[k].output = LabelOf(k)
    /\ toggle = (Len(output_data) % 2 = 0)
    /\ pc = "done" => Len(outfile.lines) = Len(RecordLines(Len(infile)))

C1_Witness ==
    /\ pc = "done"
    /\ Len(infile) = 3
    /\ infile[2].kind \in {"blank", "malformed"}
    /\ ResultsIsZero(infile[1])
    /\ Len(outfile.lines) = 2
    /\ outfile.lines[2].output = "Output (b)"

\* C2: in every emitted record the slot the output label names holds the
\* corrected chosen text (the stripped rejected field when results == 0 as
\* the program compares it, the stripped chosen field otherwise) and the
\* other slot holds the corrected rejected text.
C2_RoundTrip ==
    /\ Written
    /\ \A k \in 1..Len(output_data) :
          \A e \in {output_data[k]}, d \in {Src(k)} :
              /\ e.output \in {"Output (a)", "Output (b)"}
              /\ SlotNamed(e) = IF ResultsEqualZero(d) THEN StrippedRejected(d)
                                ELSE StrippedChosen(d)
              /\ SlotOther(e) = IF ResultsEqualZero(d) THEN StrippedChosen(d)
                                ELSE StrippedRejected(d)

C2_Witness ==
    /\ pc = "done"
    /\ Len(outfile.lines) = 3
    /\ ResultsIsZero(Src(2))
    /\ Src(3).results = NoResults
    /\ outfile.lines[2].output = "Output (b)"
    /\ outfile.lines[2].b_text = StrippedRejected(Src(2))
    /\ outfile.lines[2].b_text # outfile.lines[2].a_text

\* C3: one record is emitted per record line and none for a line that fails
\* JSON decoding; each such line is reported with its number; reading goes
\* on to the end of the input, and the file written holds the records in
\* the order of their lines.
C3_SkipOnError ==
    /\ Len(output_data) = Len(RecordLines(line_number))
    /\ log = MalformedLines(line_number)
    /\ pc \in {"writing", "done"} => line_number = Len(infile)
    /\ pc = "done" =>
          /\ Len(outfile.lines) =
                Cardinality({i \in 1..Len(infile) : IsRecord(infile[i])})
          /\ \A k \in 1..Len(outfile.lines) :
                \A e \in {outfile.lines[k]}, d \in {Src(k)} :
                    /\ e.instruction =
                          ExpectedInstruction[DictGet(d.prompt, Str(<<>>)).val]
                    /\ {e.a_text, e.b_text} =
                          {StrippedChosen(d), StrippedRejected(d)}

C3_Witness ==
    /\ pc = "done"
    /\ Len(infile) = 3
    /\ IsRecord(infile[1])
    /\ infile[2].kind = "malformed"
    /\ IsRecord(infile[3])
    /\ infile[1].prompt # infile[3].prompt
    /\ log = <<2>>
    /\ Len(outfile.lines) = 2

\* how a record is laid out when the pair is swapped (the original chosen
\* text where the rejected text would stand) and when it is not
Swapped(e, d, k) ==
    IF k % 2 = 1
    THEN e.a_text = StrippedRejected(d) /\ e.b_text = StrippedChosen(d)
    ELSE e.a_text = StrippedChosen(d) /\ e.b_text = StrippedRejected(d)

Unswapped(e, d, k) ==
    IF k % 2 = 1
    THEN e.a_text = StrippedChosen(d) /\ e.b_text = StrippedRejected(d)
    ELSE e.a_text = StrippedRejected(d) /\ e.b_text = StrippedChosen(d)

\* C4 as stated: a record with results = 0 is swapped, and a record whose
\* results is missing or any value other than 0 is left unchanged.
C4_SwapOnlyOnZero ==
    \A k \in 1..Len(output_data) :
        \A e \in {output_data[k]}, d \in {Src(k)} :
            IF ResultsIsZero(d) THEN Swapped(e, d, k) ELSE Unswapped(e, d, k)

\* C4 amended: a record is swapped when results compares equal to 0 (the
\* number 0, and false, which equals 0) and left unchanged when results is
\* missing or compares unequal to 0; the first record of a run with
\* results = 0 is labelled "Output (a)" and shows the stripped original
\* rejected text in slot a.
C4_SwapOnEqualZero ==
    /\ \A k \in 1..Len(output_data) :
          \A e \in {output_data[k]}, d \in {Src(k)} :
              IF ResultsEqualZero(d) THEN Swapped(e, d, k) ELSE Unswapped(e, d, k)
    /\ (Len(output_data) >= 1 /\ ResultsIsZero(Src(1))) =>
          /\ output_data[1].output = "Output (a)"
          /\ output_data[1].a_text = StrippedRejected(Src(1))

C4_Witness ==
    /\ pc = "done"
    /\ Len(outfile.lines) = 3
    /\ ResultsIsZero(Src(1))
    /\ Src(2).results = BoolVal(0)
    /\ Src(3).results = StrNum(0)
    /\ outfile.lines[1].a_text = <<"B">>
    /\ outfile.lines[2].a_text = <<"A">>
    /\ outfile.lines[3].a_text = <<"A">>

\* C9: a record whose prompt (missing: the empty string) holds no span is
\* still emitted, once, with the empty instruction; its slots and label are
\* those the same record gets with any other prompt, and the toggle is
\* inverted as for any record.  A prompt with several spans gives the
\* stripped text of the first.
C9_MissingSpan ==
    /\ Len(output_data) = Len(RecordLines(line_number))
    /\ toggle = (Len(output_data) % 2 = 0)
    /\ \A k \in 1..Len(output_data) :
          \A e \in {output_data[k]}, d \in {Src(k)} :
              /\ e.instruction = ExpectedInstruction[DictGet(d.prompt, Str(<<>>)).val]
              /\ \A other \in {OutputEntry([d EXCEPT !.prompt = Str(PromptPlain)],
                                            k % 2 = 1)} :
                    /\ e.a_text = other.a_text
                    /\ e.b_text = other.b_text
                    /\ e.output = other.output

C9_Witness ==
    /\ pc = "done"
    /\ Len(infile) = 3
    /\ infile[1].prompt = Str(PromptOpenOnly)
    /\ infile[2].prompt = Absent
    /\ infile[3].prompt = Str(PromptTwo)
    /\ Len(outfile.lines) = 3
    /\ outfile.lines[1].instruction = <<>>
    /\ outfile.lines[2].instruction = <<>>
    /\ outfile.lines[3].instruction = <<"Q", "1">>
    /\ outfile.lines[2].output = "Output (b)"

\* C10: the output file is opened only once every input line has been
\* consumed; a line that decodes to something other than an object is not
\* skipped and reported like a decode failure but ends the run, and then the
\* file is neither opened nor written, whatever records came before.
C10_AllOrNothing ==
    /\ outfile.opened => (line_number = Len(infile) /\ pc \in {"writing", "done"})
    /\ ~outfile.opened => outfile.lines = <<>>
    /\ pc = "crashed" => (~outfile.opened /\ outfile.lines = <<>>)
    /\ \A i \in 1..line_number :
          infile[i].kind = "nonobject" => (pc = "crashed" /\ i = line_number)
    /\ \A n \in 1..Len(log) : infile[log[n]].kind # "nonobject"

C10_Witness ==
    /\ pc = "crashed"
    /\ line_number = 2
    /\ Len(infile) = 3
    /\ infile[2].kind = "nonobject"
    /\ IsRecord(infile[3])
    /\ Len(output_data) = 1
    /\ ~outfile.opened

---------------------------------------------------------------------------
(* Properties of remove_templates *)

\* C5: stripping what has been stripped changes nothing.
C5_Idempotent == s_pc = "twice" => s_twice = s_once

---------------------------------------------------------------------------
(* Properties of the benchmark runner *)

Correct(pair) == IF pair.text_chosen > pair.text_rejected THEN 1 ELSE 0

NumCorrect == Cardinality({i \in 1..Len(dataset) : Correct(dataset[i]) = 1})

ExampleDataset ==
    << [text_chosen |-> 9, text_rejected |-> 2],
       [text_chosen |-> 1, text_rejected |-> 8] >>

\* C6: after every batch the results hold one indicator per pair scored so
\* far, in dataset order, 1 iff the pair's chosen score is strictly above
\* its own rejected score; for a non-empty dataset the file written reports
\* accuracy = correct / total and num_prompts = total, whatever the batch
\* size and the shape of the pipeline's result; chosen [0.9, 0.1] against
\* rejected [0.2, 0.8] gives 1 of 2, accuracy 0.5.
C6_Accuracy ==
    /\ Len(results) = Min(step * args.batch_size, Len(dataset))
    /\ \A i \in 1..Len(results) : results[i] = Correct(dataset[i])
    /\ (b_pc \in {"save_all", "done"}) =>
          /\ Len(results) = Len(dataset)
          /\ acc_file = << [accuracy |-> [num |-> NumCorrect, den |-> Len(dataset)],
                            num_prompts |-> Len(dataset)] >>
    /\ (b_pc = "done" /\ dataset = ExampleDataset) =>
          /\ acc_file[1].accuracy.num = 1
          /\ 2 * acc_file[1].accuracy.num = acc_file[1].accuracy.den

C6_Witness ==
    /\ b_pc = "done"
    /\ Len(dataset) = 3
    /\ args.batch_size = 2
    /\ SubSeq(dataset, 1, 2) = ExampleDataset
    /\ dataset[3].text_chosen = dataset[3].text_rejected
    /\ results = <<1, 0, 0>>
    /\ acc_file[1].num_prompts = 3

\* C7: with --save_all the second file has one line per pair, and line i
\* holds the chosen and the rejected score of pair i alone.
C7_PerPairLines ==
    (b_pc = "done" /\ args.save_all) =>
        /\ Len(all_file) = Len(dataset)
        /\ \A i \in 1..Len(all_file) :
              /\ all_file[i].chosen = <<dataset[i].text_chosen>>
              /\ all_file[i].rejected = <<dataset[i].text_rejected>>

\* C8: a run whose configuration sets custom_dialogue stops with the
\* not-implemented error at its first step: nothing is ever loaded, the
\* pipeline is never called, and neither output file is written.
C8_CustomDialogue ==
    config.custom_dialogue =>
        /\ b_pc \in {"config", "not_implemented"}
        /\ loaded = {}
        /\ pipe_calls = 0
        /\ results = <<>>
        /\ acc_file = <<>>
        /\ all_file = <<>>

C8_Witness ==
    /\ config.custom_dialogue
    /\ b_pc = "not_implemented"
    /\ Len(dataset) >= 1
    /\ args.save_all

=============================================================================
